---- MODULE Spec2Model ----
(***************************************************************************)
(* Model of the data reconciliation and offline-fallback layer of the     *)
(* career-booster single page application (App component, src/vite.config *)
(* .ts): loadData, handleAddProfessor, handleEditProfessor,               *)
(* handleRemoveProfessor, handleRemoveDepartment, handleLogout,           *)
(* handleDataUpdate, loadLocalData / saveLocalData, together with the     *)
(* bundled Seed Dataset (src/seed-export.ts) and request() of the API     *)
(* client (src/alumni_search.js).                                         *)
(*                                                                         *)
(* JavaScript objects are records; a property that is absent is a field   *)
(* that is not in the record's DOMAIN.  Every `await` is a point where    *)
(* other handlers may run: an asynchronous handler is a start action and, *)
(* for each await, a resume action that draws the outcome of the awaited  *)
(* Remote Store call and runs the handler to its next await or its end.   *)
(*                                                                         *)
(* Spec is the App component with the Remote Store answering at the level *)
(* of request(); SpecRequest is one invocation of request() over fetch.   *)
(* SpecSession and SpecRace start from a loaded administrator session:    *)
(* the first with logout, login and reload, the second with the mutations *)
(* of professors only.  SpecAlumni is the alumni search module, SpecRetry *)
(* one invocation of fetchWithRetry() and SpecJobs the PublicJobSearch    *)
(* component of the job/news search.                                      *)
(***************************************************************************)
EXTENDS Integers, Sequences, FiniteSets, TLC

\* ------------------------------------------------------------------ bounds
MaxCalls == 2           \* asynchronous handler invocations in flight at once
MaxOps == 2             \* handler invocations in one behaviour
MaxNow == 1             \* Date.now() reads a millisecond in 0..MaxNow
SeedProfCount == 2      \* professors of the Seed Dataset kept in the model

\* --------------------------------------------------------- JavaScript values
Null == [isNull |-> TRUE]
IsNull(v) == "isNull" \in DOMAIN v
Has(obj, key) == key \in DOMAIN obj
EmptyObject == <<>>

\* String.prototype.toLowerCase on the names that occur in the model
toLowerCase(s) ==
    CASE s = "ECE" -> "ece"
      [] s = "Ece" -> "ece"
      [] s = "VLSI" -> "vlsi"
      [] s = "Electronics" -> "electronics"
      [] s = "Computer Science" -> "computer science"
      [] OTHER -> s

\* Date.now(): the wall clock, read when the handler runs
Times == 0..MaxNow

\* `${prefix}${Date.now()}`
TimeId(prefix, t) == prefix \o ToString(t)

\* ------------------------------------------------------------ Seed Dataset
SeedProfNames ==
    <<"Amitabha Bhattacharya", "Amitalok Jayant Budkuley", "Basudev Lahiri",
      "Bratin Ghosh", "Debashis Sen", "Goutam Saha">>

SeedProfKey(i) == "prof_ece_" \o ToString(i)

SeedProfessor(i) ==
    [id |-> SeedProfKey(i), name |-> SeedProfNames[i], branch |-> "branch_ece",
     departmentId |-> "dept_ece"]

SeedKeyIndex(k) == CHOOSE i \in 1..SeedProfCount : SeedProfKey(i) = k

fallbackData ==
    [departments |->
        <<[id |-> "dept_ece",
           name |-> "Electronics & Electrical Communication Engineering",
           branches |-> <<"branch_ece">>]>>,
     branches |->
        [k \in {"branch_ece"} |->
            [id |-> "branch_ece", name |-> "ECE", departmentId |-> "dept_ece"]],
     professors |->
        [k \in {SeedProfKey(i) : i \in 1..SeedProfCount} |->
            SeedProfessor(SeedKeyIndex(k))],
     news |-> <<>>]

\* ------------------------------------------------- Remote Store: /api/mock-data
\* A well-formed payload that overlaps the Seed Dataset with other values.
ServerFull ==
    [departments |->
        <<[id |-> "dept_cs", name |-> "Computer Science", branches |-> <<"branch_cs">>],
          [id |-> "dept_ece", name |-> "Electronics", branches |-> <<"branch_ece">>]>>,
     branches |->
        [k \in {"branch_cs", "branch_ece"} |->
            IF k = "branch_cs"
            THEN [id |-> "branch_cs", name |-> "cs", departmentId |-> "dept_cs"]
            ELSE [id |-> "branch_ece", name |-> "Electronics", departmentId |-> "dept_ece"]],
     professors |->
        [k \in {"prof_ece_1", "srv_1"} |->
            IF k = "prof_ece_1"
            THEN [_id |-> "prof_ece_1", id |-> "prof_ece_1", name |-> "A. Bhattacharya",
                  branch |-> "branch_ece", departmentId |-> "dept_ece"]
            ELSE [_id |-> "srv_1", id |-> "srv_1", name |-> "Server Professor",
                  branch |-> "branch_cs", departmentId |-> "dept_cs"]],
     news |-> <<>>]

\* A well-formed payload that shares no identifier with the Seed Dataset.
ServerEmpty ==
    [departments |-> <<>>, branches |-> EmptyObject, professors |-> EmptyObject,
     news |-> <<>>]

\* Payloads of other shapes.
ServerDepartmentsOnly == [departments |-> ServerFull.departments]
ServerNoBranches ==
    [departments |-> ServerFull.departments, professors |-> ServerFull.professors]

FetchPayloads ==
    {ServerFull, ServerEmpty, ServerDepartmentsOnly, ServerNoBranches, EmptyObject, Null}

\* --------------------------------------------------------------- Local Cache
\* The item stored under LOCAL_STORAGE_KEY: none, a string that is not JSON,
\* or the JSON text of a value.
NoItem == [item |-> "none"]
Garbage == [item |-> "garbage"]
stringify(v) == [item |-> "json", value |-> v]

\* A snapshot written by an earlier session, before the Seed Dataset held
\* its present entries: one seed professor edited locally, the rest missing.
CacheSnapshot ==
    [departments |->
        <<[id |-> "dept_cs", name |-> "Computer Science", branches |-> <<"branch_cs">>]>>,
     branches |->
        [k \in {"branch_cs"} |->
            [id |-> "branch_cs", name |-> "cs", departmentId |-> "dept_cs"]],
     professors |->
        [k \in {"prof_ece_1"} |->
            [id |-> "prof_ece_1", name |-> "edited offline", branch |-> "branch_cs",
             departmentId |-> "dept_cs", departmentName |-> "Computer Science"]],
     news |-> <<>>]

InitialItems ==
    {NoItem, Garbage, stringify(Null), stringify(EmptyObject), stringify(CacheSnapshot)}

\* loadLocalData: getItem, then JSON.parse; null when absent or on a throw
loadLocalData(item) ==
    IF item.item = "json" THEN item.value ELSE Null

\* ----------------------------------------------------------- loadData: merge
\* JavaScript truthiness of a value that is null or an object
Truthy(v) == ~IsNull(v)

\* try-block of loadData: the payload is adopted when it has `departments`
ServerDataValid(serverData) == Truthy(serverData) /\ Has(serverData, "departments")

DeptIds(departments) == {departments[i].id : i \in DOMAIN departments}

\* faulty variants of the department merge
MergeDepartments_NoPush(departments, fbDepartments) == departments

MergeDepartments_PushAll(departments, fbDepartments) == departments \o fbDepartments

\* 1. Merge Departments: seed departments whose id is not in the base are pushed
MergeDepartments(departments, fbDepartments) ==
    LET existingDeptIds == DeptIds(departments)
    IN  departments \o SelectSeq(fbDepartments, LAMBDA d : d.id \notin existingDeptIds)

\* faulty variants of the merge
MergeByKey_KeepCurrentOnly(current, fallback) == current

MergeByKey_SeedWins(current, fallback) ==
    [k \in DOMAIN current \cup DOMAIN fallback |->
        IF k \in DOMAIN fallback THEN fallback[k] ELSE current[k]]

\* 2./3. Merge Professors, Merge Branches: add if there is no entry under the key
MergeByKey(current, fallback) ==
    [k \in DOMAIN current \cup DOMAIN fallback |->
        IF k \in DOMAIN current THEN current[k] ELSE fallback[k]]

\* The merge dereferences loadedData.departments, .professors and .branches.
MergeThrows(loadedData) ==
    \/ ~Has(loadedData, "departments")
    \/ ~Has(loadedData, "professors") /\ DOMAIN fallbackData.professors # {}
    \/ ~Has(loadedData, "branches") /\ DOMAIN fallbackData.branches # {}

MergeFallback(loadedData) ==
    [departments |-> MergeDepartments(loadedData.departments, fallbackData.departments),
     professors |-> MergeByKey(loadedData.professors, fallbackData.professors),
     branches |-> MergeByKey(loadedData.branches, fallbackData.branches)]
    @@ loadedData

\* ------------------------------------------------------------------- state
VARIABLES
    data,           \* useState<AppData | null>
    loading,        \* useState(true)
    apiStatus,      \* 'connecting' | 'connected' | 'offline'
    userRole,       \* "none" (null), "admin" or "public"
    toast,          \* the message of the last showToast, "" before the first
    localStorage,   \* the item under LOCAL_STORAGE_KEY
    calls,          \* the asynchronous handler invocations awaiting the Remote Store
    ops,            \* number of handler invocations so far
    lastCall,       \* the handler invocation that ran last after an await or
                    \* returned before one, and how
    http,           \* one invocation of request(endpoint, options) of the API client
    alumni,         \* the alumni search module: input, status, results, requests
    retry,          \* one invocation of fetchWithRetry(url) of the job/news search
    jobs            \* the job/news search: start index, results, cache, request

vars ==
    <<data, loading, apiStatus, userRole, toast, localStorage, calls, ops, lastCall, http,
      alumni, retry, jobs>>

\* the App component's part of the state
appVars == <<data, loading, apiStatus, userRole, toast, localStorage, calls, ops, lastCall>>

Idle == [op |-> "idle"]

\* initAlumniSearch: empty input, no timer, renderResults([]), no request
AlumniInit ==
    [value |-> "", timer |-> FALSE, status |-> "", results |-> <<>>, shown |-> 0,
     issued |-> 0, fetches |-> {}]

\* fetchWithRetry before it is called
RetryIdle == [pc |-> "idle"]

\* PublicJobSearch after mount: the useState defaults with the API key and the
\* engine id at their built-in values, an empty cache, no search run yet
JobsInit ==
    [query |-> "", results |-> <<>>, loading |-> FALSE, error |-> "", startIndex |-> 1,
     hasMore |-> FALSE, cache |-> EmptyObject, pending |-> Null, last |-> [from |-> "none"],
     runs |-> 0]
HttpIdle == [pc |-> "idle"]

\* the parts of the page outside the App component's directory state
searchVars == <<alumni, retry, jobs>>
FreeSlots == {i \in 1..MaxCalls : calls[i] = Idle}
FirstFree == CHOOSE i \in FreeSlots : \A j \in FreeSlots : i <= j
Pending(i, op) == calls[i].op = op /\ calls[i].state = "pending"

Init ==
    /\ data = Null
    /\ loading = TRUE
    /\ apiStatus = "connecting"
    /\ userRole = "none"
    /\ toast = ""
    /\ localStorage \in InitialItems
    /\ calls = [i \in 1..MaxCalls |-> Idle]
    /\ ops = 0
    /\ lastCall = [op |-> "none"]
    /\ http = HttpIdle
    /\ alumni = AlumniInit
    /\ retry = RetryIdle
    /\ jobs = JobsInit

\* handleLogin / handlePublicLogin set userRole; the effect on [userRole]
\* then calls loadData, which sets loading and awaits fetchMockData().
Login(role) ==
    /\ userRole = "none"
    /\ ops < MaxOps
    /\ FreeSlots # {}
    /\ userRole' = role
    /\ loading' = TRUE
    /\ calls' = [calls EXCEPT ![FirstFree] = [op |-> "loadData", state |-> "pending"]]
    /\ ops' = ops + 1
    /\ UNCHANGED <<data, apiStatus, toast, localStorage, lastCall>>
    /\ UNCHANGED <<http, searchVars>>

\* handleLogout: the role is cleared; data and apiStatus are not touched.
handleLogout ==
    /\ userRole # "none"
    /\ userRole' = "none"
    /\ UNCHANGED <<data, loading, apiStatus, toast, localStorage, calls, ops, lastCall>>
    /\ UNCHANGED <<http, searchVars>>

\* request('/api/mock-data') settles: a payload, or an error after the retries
FetchResponses ==
    {[state |-> "fulfilled", reply |-> p] : p \in FetchPayloads} \cup {[state |-> "rejected"]}

\* loadData after the await: choice of the base, merge of the Seed Dataset,
\* setData and setLoading(false).  A TypeError in the merge leaves loadData
\* by an exception: neither setData nor setLoading(false) runs.
LoadSource(call, item) ==
    IF call.state = "fulfilled" /\ ServerDataValid(call.reply) THEN "remote"
    ELSE IF Truthy(loadLocalData(item)) THEN "cache"
    ELSE "seed"

\* faulty variant: the snapshot is preferred to the payload of the Remote Store
LoadedData_CacheFirst(call, item) ==
    LET local == loadLocalData(item)
    IN  IF Truthy(local) THEN local
        ELSE IF call.state = "fulfilled" /\ ServerDataValid(call.reply) THEN call.reply
        ELSE fallbackData

LoadedData(call, item) ==
    IF call.state = "fulfilled" /\ ServerDataValid(call.reply) THEN call.reply
    ELSE LET local == loadLocalData(item)
         IN  IF Truthy(local) THEN local ELSE fallbackData

LoadStatus(call) ==
    IF call.state = "fulfilled" /\ ServerDataValid(call.reply) THEN "connected" ELSE "offline"

loadData(i, response) ==
    /\ Pending(i, "loadData")
    /\ LET call == response @@ calls[i]
           loadedData == LoadedData(call, localStorage)
           source == LoadSource(call, localStorage)
       IN  /\ apiStatus' = LoadStatus(call)
           /\ IF MergeThrows(loadedData)
              THEN /\ lastCall' = [op |-> "loadData", outcome |-> "threw", source |-> source,
                                   call |-> call, loaded |-> loadedData, before |-> data]
                   /\ UNCHANGED <<data, loading>>
              ELSE /\ data' = MergeFallback(loadedData)
                   /\ loading' = FALSE
                   /\ lastCall' = [op |-> "loadData", outcome |-> "returned", source |-> source,
                                   call |-> call, loaded |-> loadedData, before |-> data]
    /\ calls' = [calls EXCEPT ![i] = Idle]
    /\ UNCHANGED <<userRole, toast, localStorage, ops>>
    /\ UNCHANGED <<http, searchVars>>

\* ------------------------------------------------------------ mutation path
\* faulty variant: a write that fails loses the item that was stored
saveLocalData_ClearsOnFailure(item, newData, writeOk) ==
    IF writeOk THEN stringify(newData) ELSE NoItem

\* saveLocalData: setItem may throw (quota); the exception is ignored
saveLocalData(item, newData, writeOk) ==
    IF writeOk THEN stringify(newData) ELSE item

\* handleDataUpdate: setData(currentData => ...) with saveLocalData(newData);
\* null stays null and nothing is saved
UpdatedData(currentData, newData) ==
    IF IsNull(currentData) THEN Null ELSE newData

UpdatedItem(currentData, item, newData, writeOk) ==
    IF IsNull(currentData) THEN item ELSE saveLocalData(item, newData, writeOk)

\* Array.prototype.find: the first element that satisfies Match, or null
Find(array, Match(_)) ==
    LET hits == {n \in DOMAIN array : Match(array[n])}
    IN  IF hits = {} THEN Null
        ELSE array[CHOOSE n \in hits : \A m \in hits : n <= m]

\* faulty variant: the first department stands in for one that is not found
FindDepartment_OrFirst(departments, departmentId) ==
    LET hit == Find(departments, LAMBDA d : d.id = departmentId)
    IN  IF IsNull(hit) /\ departments # <<>> THEN departments[1] ELSE hit

\* data.departments.find(d => d.id === departmentId)
FindDepartment(departments, departmentId) ==
    Find(departments, LAMBDA d : d.id = departmentId)

\* department.branches.map(bId => data.branches[bId]); undefined is Null
ListedBranches(department, branches) ==
    [n \in DOMAIN department.branches |->
        IF Has(branches, department.branches[n]) THEN branches[department.branches[n]]
        ELSE Null]

\* handleAddProfessor: b?.name.toLowerCase() === branchName.toLowerCase()
AddExistingBranch(listed, branchName) ==
    Find(listed, LAMBDA b : Truthy(b) /\ toLowerCase(b.name) = toLowerCase(branchName))

\* faulty variant: the match by identifier is left out
EditExistingBranch_NameOnly(listed, branchName) ==
    Find(listed, LAMBDA b : Truthy(b) /\ toLowerCase(b.name) = toLowerCase(branchName))

\* handleEditProfessor: b && (b.id === branchName || same name ignoring case)
EditExistingBranch(listed, branchName) ==
    Find(listed, LAMBDA b : Truthy(b) /\ (\/ b.id = branchName
                                          \/ toLowerCase(b.name) = toLowerCase(branchName)))

\* existingBranch ? existingBranch.id : `branch_${Date.now()}`
ResolveBranchId(existingBranch, now) ==
    IF Truthy(existingBranch) THEN existingBranch.id ELSE TimeId("branch_", now)

Without(obj, key) == [k \in DOMAIN obj \ {key} |-> obj[k]]

\* { ...map, [key]: entry }
Put(map, key, entry) ==
    [k \in DOMAIN map \cup {key} |-> IF k = key THEN entry ELSE map[k]]

\* the forms the dialogs submit
AddForm(departmentId, branchName) ==
    [name |-> "New Professor", departmentId |-> departmentId, branchName |-> branchName]
AddForms ==
    {AddForm("dept_ece", "ece"), AddForm("dept_ece", "VLSI"), AddForm("dept_gone", "VLSI")}
EditForm(id, departmentId, branchName) ==
    [id |-> id, name |-> "Edited Name", departmentId |-> departmentId,
     branchName |-> branchName]
EditForms ==
    {EditForm("prof_ece_1", "dept_ece", "Ece"), EditForm("prof_ece_1", "dept_ece", "branch_ece"),
     EditForm("prof_ece_1", "dept_ece", "VLSI"), EditForm("", "dept_ece", "VLSI"),
     EditForm("prof_ece_1", "dept_gone", "VLSI")}

\* identifiers the Remote Store assigns
ServerIds == {"srv_1"}

\* request('/api/datas/update') resolves with the stored document: the payload
\* with an _id the server assigned or kept, or a document without one.
UpdateReplies(payload) ==
    {[_id |-> sid] @@ payload : sid \in ServerIds}
        \cup {payload} \cup {Without(payload, "_id")}

\* request('/api/datas/update') settles
UpdateResponses(payload) ==
    {[state |-> "fulfilled", reply |-> savedProf] : savedProf \in UpdateReplies(payload)}
        \cup {[state |-> "rejected"]}

\* AddProfessorModal.handleSubmit around `await onSubmit({ ...form })`: the
\* success notice and onClose() when onSubmit returned, the failure notice with
\* the dialog left open when it threw
SubmitReport(threw) ==
    IF threw
    THEN [notice |-> "Failed to add professor.", closed |-> FALSE]
    ELSE [notice |-> "Professor added.", closed |-> TRUE]

\* handleAddProfessor up to the await; every path of the handler, the ones after
\* the await included, returns to the dialog without an exception
handleAddProfessor(form, now) ==
    /\ userRole = "admin"
    /\ ops < MaxOps
    /\ ops' = ops + 1
    /\ IF IsNull(data)
       THEN /\ lastCall' = [op |-> "addProfessor", outcome |-> "noData", form |-> form,
                            before |-> data, dialog |-> SubmitReport(FALSE)]
            /\ UNCHANGED <<toast, calls>>
       ELSE LET department == FindDepartment(data.departments, form.departmentId)
            IN  IF IsNull(department)
                THEN /\ toast' = "Error: Selected department not found."
                     /\ lastCall' = [op |-> "addProfessor", outcome |-> "invalidDepartment",
                                     form |-> form, before |-> data,
                                     itemBefore |-> localStorage,
                                     statusBefore |-> apiStatus,
                                     dialog |-> SubmitReport(FALSE)]
                     /\ UNCHANGED calls
                ELSE LET listed == ListedBranches(department, data.branches)
                         existingBranch == AddExistingBranch(listed, form.branchName)
                         branchId == ResolveBranchId(existingBranch, now)
                         profPayload ==
                             [name |-> form.name, branch |-> branchId,
                              departmentId |-> department.id,
                              departmentName |-> department.name]
                     IN  /\ FreeSlots # {}
                         /\ calls' = [calls EXCEPT ![FirstFree] =
                                [op |-> "addProfessor", state |-> "pending", form |-> form,
                                 payload |-> profPayload, department |-> department,
                                 listed |-> listed]]
                         /\ UNCHANGED <<toast, lastCall>>
    /\ UNCHANGED <<data, loading, apiStatus, userRole, localStorage>>
    /\ UNCHANGED <<http, searchVars>>

\* computed key of the updater of handleAddProfessor: [savedProf._id]
AddKey(savedProf) == IF Has(savedProf, "_id") THEN savedProf._id ELSE "undefined"

\* faulty variant: the new map is built without spreading the old one
AddUpdater_NoSpread(currentData, savedProf) ==
    [professors |-> Put(EmptyObject, AddKey(savedProf), [id |-> AddKey(savedProf)] @@ savedProf)]
    @@ currentData

\* updater of handleAddProfessor
AddUpdater(currentData, savedProf) ==
    LET entry == IF Has(savedProf, "_id")
                 THEN [id |-> savedProf._id] @@ savedProf
                 ELSE Without(savedProf, "id")
    IN  [professors |-> Put(currentData.professors, AddKey(savedProf), entry)] @@ currentData

\* handleAddProfessor after the await, try-block
AddFulfilled(i, response, writeOk) ==
    LET newData == AddUpdater(data, response.reply)
    IN  /\ data' = UpdatedData(data, newData)
        /\ localStorage' = UpdatedItem(data, localStorage, newData, writeOk)
        /\ toast' = "Professor added!"
        /\ lastCall' = [op |-> "addProfessor", outcome |-> "saved",
                        call |-> response @@ calls[i], key |-> AddKey(response.reply),
                        before |-> data, itemBefore |-> localStorage,
                        stored |-> writeOk, dialog |-> SubmitReport(FALSE)]
        /\ UNCHANGED apiStatus

\* faulty variant: an offline fallback that inserts the payload locally, as Edit has
AddRejected_LocalInsert(i, response) ==
    LET newData == AddUpdater(data, [_id |-> "local_add"] @@ calls[i].payload)
    IN  /\ apiStatus' = "offline"
        /\ toast' = "Failed to save professor."
        /\ lastCall' = [op |-> "addProfessor", outcome |-> "failed",
                        call |-> response @@ calls[i], before |-> data,
                        itemBefore |-> localStorage, dialog |-> SubmitReport(FALSE)]
        /\ data' = UpdatedData(data, newData)
        /\ localStorage' = UpdatedItem(data, localStorage, newData, TRUE)

\* handleAddProfessor after the await, catch-block
AddRejected(i, response) ==
    /\ apiStatus' = "offline"
    /\ toast' = "Failed to save professor."
    /\ lastCall' = [op |-> "addProfessor", outcome |-> "failed",
                    call |-> response @@ calls[i], before |-> data,
                    itemBefore |-> localStorage, dialog |-> SubmitReport(FALSE)]
    /\ UNCHANGED <<data, localStorage>>

AddResume(i, response) ==
    /\ Pending(i, "addProfessor")
    /\ response \in UpdateResponses(calls[i].payload)
    /\ IF response.state = "fulfilled"
       THEN \E writeOk \in BOOLEAN : AddFulfilled(i, response, writeOk)
       ELSE AddRejected(i, response)
    /\ calls' = [calls EXCEPT ![i] = Idle]
    /\ UNCHANGED <<loading, userRole, ops>>
    /\ UNCHANGED <<http, searchVars>>

\* handleEditProfessor up to the await
handleEditProfessor(form, now) ==
    /\ userRole = "admin"
    /\ ops < MaxOps
    /\ ops' = ops + 1
    /\ IF IsNull(data)
       THEN /\ lastCall' = [op |-> "editProfessor", outcome |-> "noData", form |-> form,
                            before |-> data]
            /\ UNCHANGED <<toast, calls>>
       ELSE LET department == FindDepartment(data.departments, form.departmentId)
            IN  IF IsNull(department)
                THEN /\ toast' = "Selected department not found."
                     /\ lastCall' = [op |-> "editProfessor", outcome |-> "invalidDepartment",
                                     form |-> form, before |-> data,
                                     itemBefore |-> localStorage,
                                     statusBefore |-> apiStatus]
                     /\ UNCHANGED calls
                ELSE LET listed == ListedBranches(department, data.branches)
                         existingBranch == EditExistingBranch(listed, form.branchName)
                         branchId == ResolveBranchId(existingBranch, now)
                         isNewBranch == ~Truthy(existingBranch)
                         core == [name |-> form.name, branch |-> branchId,
                                  departmentId |-> department.id,
                                  departmentName |-> department.name]
                         withName == IF isNewBranch
                                     THEN [branchName |-> form.branchName] @@ core
                                     ELSE core
                         payload == IF form.id # ""
                                    THEN withName @@ [_id |-> form.id, id |-> form.id]
                                    ELSE withName
                     IN  /\ FreeSlots # {}
                         /\ calls' = [calls EXCEPT ![FirstFree] =
                                [op |-> "editProfessor", state |-> "pending", form |-> form,
                                 payload |-> payload, department |-> department,
                                 listed |-> listed, branchId |-> branchId,
                                 isNewBranch |-> isNewBranch]]
                         /\ UNCHANGED <<toast, lastCall>>
    /\ UNCHANGED <<data, loading, apiStatus, userRole, localStorage>>
    /\ UNCHANGED <<http, searchVars>>

\* faulty variant: the department is rebuilt from the one the handler found
\* when the form was submitted, not from the one in currentData
WithNewBranch_CapturedDepartment(currentData, call) ==
    IF call.isNewBranch
    THEN LET newBranch == [id |-> call.branchId, name |-> call.form.branchName,
                           departmentId |-> call.department.id]
         IN  [branches |-> Put(currentData.branches, call.branchId, newBranch),
              departments |->
                 [n \in DOMAIN currentData.departments |->
                     LET d == currentData.departments[n]
                     IN  IF d.id = call.department.id
                         THEN [branches |-> Append(call.department.branches, call.branchId)]
                              @@ call.department
                         ELSE d]]
             @@ currentData
    ELSE currentData

\* `if (isNewBranch)` of both updaters of handleEditProfessor
WithNewBranch(currentData, call) ==
    IF call.isNewBranch
    THEN LET newBranch == [id |-> call.branchId, name |-> call.form.branchName,
                           departmentId |-> call.department.id]
         IN  [branches |-> Put(currentData.branches, call.branchId, newBranch),
              departments |->
                 [n \in DOMAIN currentData.departments |->
                     LET d == currentData.departments[n]
                     IN  IF d.id = call.department.id
                         THEN [branches |-> Append(d.branches, call.branchId)] @@ d
                         ELSE d]]
             @@ currentData
    ELSE currentData

\* savedProf._id || savedProf.id || id
SavedId(savedProf, id) ==
    IF Has(savedProf, "_id") /\ savedProf._id # "" THEN savedProf._id
    ELSE IF Has(savedProf, "id") /\ savedProf.id # "" THEN savedProf.id
    ELSE id

\* id || `local_${Date.now()}`
LocalKey(id, now) == IF id # "" THEN id ELSE TimeId("local_", now)

\* faulty variant: the returned record is spread over the entry that is there
EditUpdater_MergeExisting(currentData, call) ==
    LET updated == WithNewBranch(currentData, call)
        savedId == SavedId(call.reply, call.form.id)
        existing == IF Has(updated.professors, savedId)
                    THEN updated.professors[savedId]
                    ELSE EmptyObject
    IN  [professors |->
            Put(updated.professors, savedId, [id |-> savedId] @@ call.reply @@ existing)]
        @@ updated

\* updater of the try-block of handleEditProfessor
EditUpdater(currentData, call) ==
    LET updated == WithNewBranch(currentData, call)
        savedId == SavedId(call.reply, call.form.id)
    IN  [professors |-> Put(updated.professors, savedId, [id |-> savedId] @@ call.reply)]
        @@ updated

\* faulty variant: the catch-block registers the branch but writes no professor
EditLocalUpdater_NoRecord(currentData, call, now) == WithNewBranch(currentData, call)

\* updater of the catch-block of handleEditProfessor (without its save)
EditLocalUpdater(currentData, call, now) ==
    LET updated == WithNewBranch(currentData, call)
        key == LocalKey(call.form.id, now)
        entry == [name |-> call.form.name, id |-> key, branch |-> call.branchId,
                  departmentId |-> call.department.id,
                  departmentName |-> call.department.name]
    IN  [professors |-> Put(updated.professors, key, entry)] @@ updated

\* handleEditProfessor after the await, try-block
EditFulfilled(i, response, writeOk) ==
    LET call == response @@ calls[i]
        newData == EditUpdater(data, call)
    IN  /\ data' = UpdatedData(data, newData)
        /\ localStorage' = UpdatedItem(data, localStorage, newData, writeOk)
        /\ toast' = "Professor updated."
        /\ lastCall' = [op |-> "editProfessor", outcome |-> "saved", call |-> call,
                        key |-> SavedId(call.reply, call.form.id),
                        before |-> data, itemBefore |-> localStorage,
                        stored |-> writeOk]
        /\ UNCHANGED apiStatus

\* handleEditProfessor after the await, catch-block: the updater saves, and
\* handleDataUpdate saves again
EditRejected(i, response, now, innerOk, outerOk) ==
    LET call == response @@ calls[i]
        newData == EditLocalUpdater(data, call, now)
    IN  /\ apiStatus' = "offline"
        /\ data' = UpdatedData(data, newData)
        /\ localStorage' =
              UpdatedItem(data, UpdatedItem(data, localStorage, newData, innerOk),
                          newData, outerOk)
        /\ toast' = "Professor updated locally (offline)."
        /\ lastCall' = [op |-> "editProfessor", outcome |-> "savedLocally", call |-> call,
                        key |-> LocalKey(call.form.id, now),
                        before |-> data, itemBefore |-> localStorage,
                        stored |-> (innerOk \/ outerOk)]

EditResume(i, response, now) ==
    /\ Pending(i, "editProfessor")
    /\ response \in UpdateResponses(calls[i].payload)
    /\ IF response.state = "fulfilled"
       THEN \E writeOk \in BOOLEAN : EditFulfilled(i, response, writeOk)
       ELSE \E innerOk \in BOOLEAN, outerOk \in BOOLEAN :
                EditRejected(i, response, now, innerOk, outerOk)
    /\ calls' = [calls EXCEPT ![i] = Idle]
    /\ UNCHANGED <<loading, userRole, ops>>
    /\ UNCHANGED <<http, searchVars>>

\* identifiers the directory page passes to onRemove: professor.id of every
\* entry of the professor map (String(undefined) when the entry has no id)
ListedProfessorIds(professors) ==
    {IF Has(professors[k], "id") THEN professors[k].id ELSE "undefined" :
        k \in DOMAIN professors}

\* handleRemoveProfessor up to the await, the confirm dialog accepted.  The
\* Remove button is rendered for an administrator on the loaded directory.
handleRemoveProfessor(profId) ==
    /\ userRole = "admin"
    /\ ~loading
    /\ ~IsNull(data)
    /\ profId \in ListedProfessorIds(data.professors)
    /\ ops < MaxOps
    /\ FreeSlots # {}
    /\ ops' = ops + 1
    /\ calls' = [calls EXCEPT ![FirstFree] =
                    [op |-> "removeProfessor", state |-> "pending", profId |-> profId]]
    /\ UNCHANGED <<data, loading, apiStatus, userRole, toast, localStorage, lastCall>>
    /\ UNCHANGED <<http, searchVars>>

\* a DELETE request (deleteProfessor, deleteDepartment) settles
DeleteResponses == {[state |-> "fulfilled"], [state |-> "rejected"]}

\* faulty variant: the map is emptied instead of losing one key
RemoveUpdater_DropAll(d, profId) == [professors |-> EmptyObject] @@ d

\* updater of handleRemoveProfessor: delete newProfs[profId]
RemoveUpdater(d, profId) == [professors |-> Without(d.professors, profId)] @@ d

\* handleRemoveProfessor after the await, try-block
RemoveFulfilled(i, response, writeOk) ==
    LET newData == RemoveUpdater(data, calls[i].profId)
    IN  /\ data' = UpdatedData(data, newData)
        /\ localStorage' = UpdatedItem(data, localStorage, newData, writeOk)
        /\ toast' = "Professor removed."
        /\ lastCall' = [op |-> "removeProfessor", outcome |-> "removed",
                        call |-> response @@ calls[i], before |-> data,
                        itemBefore |-> localStorage, stored |-> writeOk]

\* handleRemoveProfessor after the await, catch-block
RemoveRejected(i, response) ==
    /\ toast' = "Error removing professor."
    /\ lastCall' = [op |-> "removeProfessor", outcome |-> "failed",
                    call |-> response @@ calls[i], before |-> data,
                    itemBefore |-> localStorage]
    /\ UNCHANGED <<data, localStorage>>

RemoveResume(i, response) ==
    /\ Pending(i, "removeProfessor")
    /\ IF response.state = "fulfilled"
       THEN \E writeOk \in BOOLEAN : RemoveFulfilled(i, response, writeOk)
       ELSE RemoveRejected(i, response)
    /\ calls' = [calls EXCEPT ![i] = Idle]
    /\ UNCHANGED <<loading, apiStatus, userRole, ops>>
    /\ UNCHANGED <<http, searchVars>>

\* handleRemoveDepartment up to the first await, the confirm dialog accepted.
\* The side panel lists data.departments and shows the button to an administrator.
handleRemoveDepartment(deptId) ==
    /\ userRole = "admin"
    /\ ~IsNull(data)
    /\ deptId \in DeptIds(data.departments)
    /\ ops < MaxOps
    /\ FreeSlots # {}
    /\ ops' = ops + 1
    /\ calls' = [calls EXCEPT ![FirstFree] =
                    [op |-> "removeDepartment", state |-> "pending", deptId |-> deptId]]
    /\ UNCHANGED <<data, loading, apiStatus, userRole, toast, localStorage, lastCall>>
    /\ UNCHANGED <<http, searchVars>>

\* the aggregates the Remote Store serves after a department was deleted
RefetchPayloads == {ServerFull, ServerEmpty}

\* request('/api/mock-data') of handleRemoveDepartment settles
RefetchResponses ==
    {[state |-> "fulfilled", reply |-> p] : p \in RefetchPayloads} \cup {[state |-> "rejected"]}

\* faulty variant: the Seed Dataset is merged into the refetched aggregate
FreshData_Merged(freshData) == MergeFallback(freshData)

\* setData(freshData): the refetched aggregate is set as it came
FreshData(freshData) == freshData

\* catch-block of handleRemoveDepartment, for either await
RemoveDepartmentRejected(i, response, failedCall) ==
    /\ toast' = "Error removing department."
    /\ lastCall' = [op |-> "removeDepartment", outcome |-> "failed",
                    call |-> response @@ calls[i], failedCall |-> failedCall,
                    before |-> data, itemBefore |-> localStorage]
    /\ calls' = [calls EXCEPT ![i] = Idle]
    /\ UNCHANGED data

\* handleRemoveDepartment after `await deleteDepartment(deptId)`: on success
\* fetchMockData() is called and awaited
DeleteDepartmentResume(i, response) ==
    /\ Pending(i, "removeDepartment")
    /\ IF response.state = "fulfilled"
       THEN /\ calls' = [calls EXCEPT ![i] = [calls[i] EXCEPT !.state = "refetching"]]
            /\ lastCall' = [op |-> "removeDepartment", outcome |-> "deleted",
                            call |-> response @@ calls[i], before |-> data,
                            itemBefore |-> localStorage]
            /\ UNCHANGED <<data, toast>>
       ELSE RemoveDepartmentRejected(i, response, "delete")
    /\ UNCHANGED <<loading, apiStatus, userRole, localStorage, ops>>
    /\ UNCHANGED <<http, searchVars>>

\* handleRemoveDepartment after `await fetchMockData()`
RefetchResume(i, response) ==
    /\ calls[i].op = "removeDepartment"
    /\ calls[i].state = "refetching"
    /\ IF response.state = "fulfilled"
       THEN /\ data' = FreshData(response.reply)
            /\ toast' = "Department removed."
            /\ lastCall' = [op |-> "removeDepartment", outcome |-> "removed",
                            call |-> response @@ calls[i], before |-> data,
                            itemBefore |-> localStorage]
            /\ calls' = [calls EXCEPT ![i] = Idle]
       ELSE RemoveDepartmentRejected(i, response, "refetch")
    /\ UNCHANGED <<loading, apiStatus, userRole, localStorage, ops>>
    /\ UNCHANGED <<http, searchVars>>

\* every response the Remote Store may give to a pending update
Responses ==
    UNION {UpdateResponses(calls[i].payload) :
              i \in {j \in 1..MaxCalls : Has(calls[j], "payload")}}

\* every identifier a Remove button may carry
RemovableIds == IF IsNull(data) THEN {} ELSE ListedProfessorIds(data.professors)

\* every identifier a remove button of the side panel may carry
RemovableDepartments == IF IsNull(data) THEN {} ELSE DeptIds(data.departments)

Next ==
    \/ \E role \in {"admin", "public"} : Login(role)
    \/ handleLogout
    \/ \E i \in 1..MaxCalls, response \in FetchResponses : loadData(i, response)
    \/ \E form \in AddForms, now \in Times : handleAddProfessor(form, now)
    \/ \E form \in EditForms, now \in Times : handleEditProfessor(form, now)
    \/ \E i \in 1..MaxCalls, response \in Responses : AddResume(i, response)
    \/ \E i \in 1..MaxCalls, response \in Responses, now \in Times :
            EditResume(i, response, now)
    \/ \E profId \in RemovableIds : handleRemoveProfessor(profId)
    \/ \E i \in 1..MaxCalls, response \in DeleteResponses : RemoveResume(i, response)
    \/ \E deptId \in RemovableDepartments : handleRemoveDepartment(deptId)
    \/ \E i \in 1..MaxCalls, response \in DeleteResponses :
            DeleteDepartmentResume(i, response)
    \/ \E i \in 1..MaxCalls, response \in RefetchResponses : RefetchResume(i, response)

Spec == Init /\ [][Next]_vars

\* ------------------------------------------- a session of an administrator
\* The App after an administrator logged in and loadData returned, with an
\* empty Local Cache; ops counts the handler invocations from here on.
SessionLoads ==
    {[state |-> "fulfilled", reply |-> p] : p \in {ServerFull, ServerEmpty}}
        \cup {[state |-> "rejected"]}

InitSession ==
    \E response \in SessionLoads :
        LET call == response @@ [op |-> "loadData", state |-> "pending"]
            loadedData == LoadedData(call, NoItem)
        IN  /\ data = MergeFallback(loadedData)
            /\ loading = FALSE
            /\ apiStatus = LoadStatus(call)
            /\ userRole = "admin"
            /\ toast = ""
            /\ localStorage = NoItem
            /\ calls = [i \in 1..MaxCalls |-> Idle]
            /\ ops = 0
            /\ lastCall = [op |-> "loadData", outcome |-> "returned",
                           source |-> LoadSource(call, NoItem), call |-> call,
                           loaded |-> loadedData, before |-> Null]
            /\ http = HttpIdle
            /\ alumni = AlumniInit
            /\ retry = RetryIdle
            /\ jobs = JobsInit

\* the forms submitted in the session
SessionEditForms ==
    {EditForm("prof_ece_1", "dept_ece", "Ece"), EditForm("prof_ece_1", "dept_ece", "VLSI")}
SessionAddForms == {AddForm("dept_ece", "ece")}

NextSession ==
    \/ Login("admin")
    \/ handleLogout
    \/ \E i \in 1..MaxCalls, response \in SessionLoads : loadData(i, response)
    \/ \E form \in SessionAddForms, now \in Times : handleAddProfessor(form, now)
    \/ \E form \in SessionEditForms, now \in Times : handleEditProfessor(form, now)
    \/ \E i \in 1..MaxCalls, response \in Responses : AddResume(i, response)
    \/ \E i \in 1..MaxCalls, response \in Responses, now \in Times :
            EditResume(i, response, now)
    \/ \E profId \in RemovableIds : handleRemoveProfessor(profId)
    \/ \E i \in 1..MaxCalls, response \in DeleteResponses : RemoveResume(i, response)

SpecSession == InitSession /\ [][NextSession]_vars

\* the mutations of professors alone, in a session that stays logged in
\* and was loaded from the Seed Dataset while the Remote Store was unreachable
InitRace == InitSession /\ lastCall.source = "seed"
RaceRemoveIds == {"prof_ece_2"}

NextRace ==
    \/ \E form \in SessionAddForms, now \in Times : handleAddProfessor(form, now)
    \/ \E form \in SessionEditForms, now \in Times : handleEditProfessor(form, now)
    \/ \E i \in 1..MaxCalls, response \in Responses : AddResume(i, response)
    \/ \E i \in 1..MaxCalls, response \in Responses, now \in Times :
            EditResume(i, response, now)
    \/ \E profId \in RemovableIds \cap RaceRemoveIds : handleRemoveProfessor(profId)
    \/ \E i \in 1..MaxCalls, response \in DeleteResponses : RemoveResume(i, response)

SpecRace == InitRace /\ [][NextRace]_vars

\* ------------------------------------------------- API client: request()
MAX_RETRIES == 2
RETRY_DELAY_MS == 500

\* the calls the exported functions make: fetchMockData, updateProfessor,
\* deleteProfessor, deleteDepartment
Requests ==
    {[endpoint |-> "/api/mock-data", method |-> "GET"],
     [endpoint |-> "/api/datas/update", method |-> "POST"],
     [endpoint |-> "/api/professors/prof_ece_1", method |-> "DELETE"],
     [endpoint |-> "/api/departments/dept_ece", method |-> "DELETE"]}

\* response bodies: the text, and the value it is the JSON text of, if any
Bodies ==
    {[text |-> "{\"ok\":true}", json |-> [ok |-> TRUE]],
     [text |-> "{\"error\":\"Professor not found\"}",
      json |-> [error |-> "Professor not found"]],
     [text |-> "Service Unavailable"],
     [text |-> ""]}

Statuses == {200, 201, 404, 500}

\* fetch() settles: a response, or a rejection (network failures as Chrome,
\* Firefox and Safari word them, and an abort)
FetchOutcomes ==
    {[kind |-> "response", status |-> st, body |-> b] : st \in Statuses, b \in Bodies}
    \cup {[kind |-> "error", type |-> "TypeError", message |-> m] :
             m \in {"Failed to fetch", "NetworkError when attempting to fetch resource.",
                    "Load failed"}}
    \cup {[kind |-> "error", type |-> "AbortError",
           message |-> "The user aborted a request."]}

\* response.ok
Ok(status) == status >= 200 /\ status <= 299

\* error.message.includes('fetch') on the messages that occur in the model
IncludesFetch(message) ==
    message \in {"Failed to fetch", "NetworkError when attempting to fetch resource."}

\* errorJson.error || errorText, then errorMessage || `HTTP ${response.status}`
ErrorMessage(status, body) ==
    LET errorMessage ==
            IF Has(body, "json") /\ Has(body.json, "error") /\ body.json.error # ""
            THEN body.json.error
            ELSE body.text
    IN  IF errorMessage # "" THEN errorMessage ELSE "HTTP " \o ToString(status)

\* try-block of one attempt: the parsed body is returned, or an error is
\* thrown (response.json() throws a SyntaxError on a body that is not JSON)
TryBlock(outcome) ==
    IF outcome.kind = "error"
    THEN [returns |-> FALSE, error |-> [type |-> outcome.type, message |-> outcome.message]]
    ELSE IF ~Ok(outcome.status)
    THEN [returns |-> FALSE,
          error |-> [type |-> "Error", status |-> outcome.status,
                     message |-> ErrorMessage(outcome.status, outcome.body)]]
    ELSE IF Has(outcome.body, "json")
    THEN [returns |-> TRUE, data |-> outcome.body.json]
    ELSE [returns |-> FALSE,
          error |-> [type |-> "SyntaxError", message |-> "Unexpected end of JSON input"]]

\* faulty variant: every error is retried while attempts are left
ShouldRetry_AnyError(attempt, error) == attempt < MAX_RETRIES

\* attempt < MAX_RETRIES && error instanceof TypeError && message.includes('fetch')
ShouldRetry(attempt, error) ==
    /\ attempt < MAX_RETRIES
    /\ error.type = "TypeError"
    /\ IncludesFetch(error.message)

\* request(endpoint, options): the loop is entered and fetch is called
request(req) ==
    /\ http = HttpIdle
    /\ http' = [pc |-> "fetching", req |-> req, attempt |-> 0, fetches |-> 1,
                log |-> <<>>, delays |-> <<>>]
    /\ UNCHANGED <<appVars, searchVars>>

\* the awaited fetch settles and the attempt runs to its return, its throw
\* or the setTimeout of the retry
FetchSettles(outcome) ==
    /\ http.pc = "fetching"
    /\ LET result == TryBlock(outcome)
           seen == [http EXCEPT !.log = Append(@, outcome)]
       IN  http' =
              IF result.returns
              THEN [pc |-> "returned", data |-> result.data] @@ seen
              ELSE IF ShouldRetry(http.attempt, result.error)
              THEN [pc |-> "sleeping", wait |-> RETRY_DELAY_MS * (http.attempt + 1)] @@ seen
              ELSE [pc |-> "threw", error |-> result.error] @@ seen
    /\ UNCHANGED <<appVars, searchVars>>

\* the timer of the retry fires: `continue`, attempt++ and the next fetch
TimerFires ==
    /\ http.pc = "sleeping"
    /\ http' = [pc |-> "fetching", req |-> http.req, attempt |-> http.attempt + 1,
                fetches |-> http.fetches + 1, log |-> http.log,
                delays |-> Append(http.delays, http.wait)]
    /\ UNCHANGED <<appVars, searchVars>>

InitRequest == Init /\ localStorage = NoItem

NextRequest ==
    \/ \E req \in Requests : request(req)
    \/ \E outcome \in FetchOutcomes : FetchSettles(outcome)
    \/ TimerFires

\* every fetch settles and every timer fires
SpecRequest ==
    /\ InitRequest
    /\ [][NextRequest]_vars
    /\ WF_vars(\E outcome \in FetchOutcomes : FetchSettles(outcome))
    /\ WF_vars(TimerFires)

\* --------------------------------------------- alumni search: doSearch()
MaxSearches == 3

\* what the input holds: nothing, a blank, or a name
Queries == {"", " ", "ann", "bob"}

\* q.trim()
Trim(q) == IF q = " " THEN "" ELSE q

\* !q || q.trim().length === 0
Blank(q) == q = "" \/ Trim(q) = ""

\* renderResults(items): the "No results" box for no items, else one card per
\* item under it.name || it.title || 'Unknown'
renderResults(items) ==
    IF items = <<>> THEN [kind |-> "empty"]
    ELSE [kind |-> "grid",
          cards |-> [n \in DOMAIN items |->
                        IF Has(items[n], "name") /\ items[n].name # "" THEN items[n].name
                        ELSE IF Has(items[n], "title") /\ items[n].title # ""
                             THEN items[n].title
                        ELSE "Unknown"]]

\* resultsContainer.innerHTML = ''
Cleared == [kind |-> "blank"]

\* POST /api/alumni_search settles for query q: a JSON body with the matches
\* or without a results field, an HTTP error with or without a message, or a
\* failure of fetch or of res.json()
AlumniOutcomes(q) ==
    {[kind |-> "response", ok |-> TRUE, json |-> [results |-> <<[name |-> q]>>]],
     [kind |-> "response", ok |-> TRUE, json |-> EmptyObject],
     [kind |-> "response", ok |-> FALSE, json |-> [error |-> "Rate limited"]],
     [kind |-> "response", ok |-> FALSE, json |-> EmptyObject],
     [kind |-> "failure"]}

\* the 'input' listener: debounce clears the timer and sets it again
Input(v) ==
    /\ v # alumni.value
    /\ alumni' = [alumni EXCEPT !.value = v, !.timer = TRUE]
    /\ UNCHANGED <<appVars, http, retry, jobs>>

\* doSearch(q) up to its first await
Searching(q) ==
    IF Blank(q)
    THEN [alumni EXCEPT !.results = renderResults(<<>>), !.status = "",
                        !.issued = @ + 1, !.shown = alumni.issued + 1]
    ELSE [alumni EXCEPT !.status = "Searching...", !.results = Cleared,
                        !.issued = @ + 1,
                        !.fetches = @ \cup {[n |-> alumni.issued + 1, q |-> q]}]

\* the debounce timer fires: doSearch(e.target.value)
DebounceFires ==
    /\ alumni.timer
    /\ alumni.issued < MaxSearches
    /\ alumni' = [Searching(alumni.value) EXCEPT !.timer = FALSE]
    /\ UNCHANGED <<appVars, http, retry, jobs>>

\* the 'keydown' listener on Enter: doSearch(input.value); the timer stays
EnterKey ==
    /\ alumni.issued < MaxSearches
    /\ alumni' = Searching(alumni.value)
    /\ UNCHANGED <<appVars, http, retry, jobs>>

\* doSearch after its awaits: error status, or the items of json.results || []
Rendered(outcome) ==
    IF outcome.kind = "failure"
    THEN [status |-> "Error searching", results |-> renderResults(<<>>)]
    ELSE IF ~outcome.ok
    THEN [status |-> IF Has(outcome.json, "error") THEN outcome.json.error
                     ELSE "Search failed",
          results |-> renderResults(<<>>)]
    ELSE [status |-> "",
          results |-> renderResults(IF Has(outcome.json, "results")
                                    THEN outcome.json.results ELSE <<>>)]

\* the fetch of one doSearch settles, in any order among those in flight
SearchSettles(fetch, outcome) ==
    /\ fetch \in alumni.fetches
    /\ outcome \in AlumniOutcomes(fetch.q)
    /\ alumni' = [alumni EXCEPT !.status = Rendered(outcome).status,
                                !.results = Rendered(outcome).results,
                                !.shown = fetch.n,
                                !.fetches = @ \ {fetch}]
    /\ UNCHANGED <<appVars, http, retry, jobs>>

AlumniFetches == {[n |-> n, q |-> q] : n \in 1..MaxSearches, q \in Queries}

InitAlumni == Init /\ localStorage = NoItem

NextAlumni ==
    \/ \E v \in Queries : Input(v)
    \/ DebounceFires
    \/ EnterKey
    \/ \E fetch \in AlumniFetches :
            \E outcome \in AlumniOutcomes(fetch.q) : SearchSettles(fetch, outcome)

SpecAlumni == InitAlumni /\ [][NextAlumni]_vars

\* ------------------------------------- job/news search: fetchWithRetry()
\* the default of the parameter `retries`
DefaultRetries == 4

\* fetch(url) settles: a failure of the network, or a response; a 2xx body is
\* JSON or not, an error body is text, empty text, or cannot be read
RetryOutcomes ==
    {[kind |-> "failure"],
     [kind |-> "response", status |-> 200, body |-> [json |-> [items |-> <<>>]]],
     [kind |-> "response", status |-> 200, body |-> [text |-> "<html>"]],
     [kind |-> "response", status |-> 404, body |-> [text |-> "Not found"]],
     [kind |-> "response", status |-> 404, body |-> [text |-> ""]],
     [kind |-> "response", status |-> 429, body |-> [text |-> "Too many requests"]],
     [kind |-> "response", status |-> 500, body |-> [unreadable |-> TRUE]]}

\* Math.pow(2, 5 - retries) * 500
Backoff(retries) == (2 ^ (5 - retries)) * 500

\* (res.status === 429 || res.status >= 500) && retries > 0
RetriesResponse(status, retries) == (status = 429 \/ status >= 500) /\ retries > 0

\* await res.text().catch(() => String(res.status)), then errText || `HTTP ${status}`
ErrorText(outcome) ==
    LET errText == IF Has(outcome.body, "text") THEN outcome.body.text
                   ELSE ToString(outcome.status)
    IN  IF errText # "" THEN errText ELSE "HTTP " \o ToString(outcome.status)

\* the try-block for one settled fetch: the parsed body, the backoff before the
\* recursive call, or the error that reaches the catch-block
RetryTry(outcome, retries) ==
    IF outcome.kind = "failure"
    THEN [to |-> "catch", error |-> [name |-> "TypeError", message |-> "Failed to fetch"]]
    ELSE IF ~Ok(outcome.status)
    THEN IF RetriesResponse(outcome.status, retries)
         THEN [to |-> "sleep", wait |-> Backoff(retries)]
         ELSE [to |-> "catch", error |-> [name |-> "Error", message |-> ErrorText(outcome)]]
    ELSE IF Has(outcome.body, "json")
    THEN [to |-> "return", data |-> outcome.body.json]
    ELSE [to |-> "catch", error |-> [name |-> "SyntaxError", message |-> "Unexpected token"]]

\* the catch-block: `if (retries > 0)` sleep and call again, else rethrow
RetryCatch(error, retries) ==
    IF retries > 0 THEN [to |-> "sleep", wait |-> Backoff(retries)]
    ELSE [to |-> "throw", error |-> error]

\* fetchWithRetry(url): the first fetch is issued
fetchWithRetry ==
    /\ retry = RetryIdle
    /\ retry' = [pc |-> "fetching", retries |-> DefaultRetries, fetches |-> 1, log |-> <<>>,
                 delays |-> <<>>]
    /\ UNCHANGED <<appVars, http, alumni, jobs>>

\* the fetch settles and the function runs to its next await or to its end
RetryFetchSettles(outcome) ==
    /\ retry.pc = "fetching"
    /\ LET tried == RetryTry(outcome, retry.retries)
           step == IF tried.to = "catch" THEN RetryCatch(tried.error, retry.retries)
                   ELSE tried
           seen == [retry EXCEPT !.log = Append(@, outcome)]
       IN  retry' =
              CASE step.to = "return" -> [pc |-> "returned", data |-> step.data] @@ seen
                [] step.to = "throw" -> [pc |-> "threw", error |-> step.error] @@ seen
                [] OTHER -> [pc |-> "sleeping", wait |-> step.wait] @@ seen
    /\ UNCHANGED <<appVars, http, alumni, jobs>>

\* the backoff timer fires: fetchWithRetry(url, retries - 1)
RetryWakes ==
    /\ retry.pc = "sleeping"
    /\ retry' = [pc |-> "fetching", retries |-> retry.retries - 1,
                 fetches |-> retry.fetches + 1, log |-> retry.log,
                 delays |-> Append(retry.delays, retry.wait)]
    /\ UNCHANGED <<appVars, http, alumni, jobs>>

InitRetry == Init /\ localStorage = NoItem

NextRetry ==
    \/ fetchWithRetry
    \/ \E outcome \in RetryOutcomes : RetryFetchSettles(outcome)
    \/ RetryWakes

SpecRetry == InitRetry /\ [][NextRetry]_vars

\* ------------------------------------ job/news search: performSearch()
\* <PublicJobSearch mode="announcements" pageSize={10} />
PageSize == 10
\* pages a session loads at most, and calls of performSearch it makes at most
MaxPages == 3
MaxRuns == 3

\* what the search input holds
JobQueries == {"", "ai"}

\* buildQuery for announcements: `${userQuery} ${keywords}`.trim(), the
\* keyword list written without its quotation marks
buildQuery(userQuery) ==
    IF userQuery = "" THEN "(hiring OR job opening OR we are hiring OR careers)"
    ELSE userQuery \o " (hiring OR job opening OR we are hiring OR careers)"

\* `${mode}::${finalQuery}::${requestedStart}::${pageSize}`
CacheKey(userQuery, requestedStart) ==
    "announcements::" \o buildQuery(userQuery) \o "::" \o ToString(requestedStart)
        \o "::" \o ToString(PageSize)

\* the search API's items from position start on: one link per position
Page(start, count) == [n \in 1..count |-> [link |-> start + n - 1]]

\* parseInt(totalResults, 10) on the totals the API reports in the model
ParseInt(text) == IF text = "25" THEN 25 ELSE 0

\* fetchWithRetry(url) settles for the start the url carries: a body with
\* items (none, some, a full page; with or without the total), a body
\* without items, an error body, or a rejection
SearchOutcomes(start) ==
    {[state |-> "fulfilled", data |-> [items |-> Page(start, count)]] :
        count \in {0, 3, PageSize}}
    \cup {[state |-> "fulfilled",
           data |-> [items |-> Page(start, PageSize),
                     searchInformation |-> [totalResults |-> "25"]]],
          [state |-> "fulfilled", data |-> EmptyObject],
          [state |-> "fulfilled", data |-> [error |-> [message |-> "Quota exceeded"]]],
          [state |-> "rejected", message |-> "Not found"]}

\* the loop over `mapped` with the Set `seen`: the first item of every link
RECURSIVE Deduplicate(_, _)
Deduplicate(items, seen) ==
    IF items = <<>> THEN <<>>
    ELSE IF Head(items).link \in seen THEN Deduplicate(Tail(items), seen)
    ELSE <<Head(items)>> \o Deduplicate(Tail(items), seen \cup {Head(items).link})

\* [...prev, ...items.filter(n => !prev.some(p => p.link === n.link))]
Appended(prev, items) ==
    prev \o SelectSeq(items, LAMBDA n : \A m \in DOMAIN prev : prev[m].link # n.link)

\* unique.slice(0, pageSize)
FirstPage(items) == SubSeq(items, 1, IF Len(items) < PageSize THEN Len(items) ELSE PageSize)

\* performSearch(requestedStart, append) up to its return on a cache hit, or
\* up to `await fetchWithRetry(url)`; the url carries `&start=${startIndex}`
performSearch(requestedStart, append) ==
    LET cacheKey == CacheKey(jobs.query, requestedStart)
    IN  IF Has(jobs.cache, cacheKey)
        THEN LET cached == jobs.cache[cacheKey]
             IN  [jobs EXCEPT !.error = "",
                              !.runs = @ + 1,
                              !.results = IF append THEN Appended(@, cached)
                                          ELSE FirstPage(cached),
                              !.hasMore = Len(cached) >= PageSize,
                              !.startIndex = requestedStart,
                              !.last = [requestedStart |-> requestedStart,
                                        append |-> append, cacheKey |-> cacheKey,
                                        from |-> "cache", before |-> jobs.startIndex]]
        ELSE [jobs EXCEPT !.error = "",
                          !.runs = @ + 1,
                          !.loading = TRUE,
                          !.pending = [requestedStart |-> requestedStart, append |-> append,
                                       cacheKey |-> cacheKey, start |-> jobs.startIndex,
                                       before |-> jobs.startIndex]]

\* the input's onChange: setQuery
SetQuery(q) ==
    /\ q # jobs.query
    /\ jobs' = [jobs EXCEPT !.query = q]
    /\ UNCHANGED <<appVars, http, alumni, retry>>

\* the form's onSubmit; the Search button is disabled while loading
handleSubmit ==
    /\ ~jobs.loading
    /\ jobs.runs < MaxRuns
    /\ jobs' = performSearch(1, FALSE)
    /\ UNCHANGED <<appVars, http, alumni, retry>>

\* the Load More button, rendered while hasMore and disabled while loading
handleLoadMore ==
    /\ jobs.hasMore
    /\ ~jobs.loading
    /\ jobs.runs < MaxRuns
    /\ jobs.startIndex + PageSize <= 1 + MaxPages * PageSize
    /\ jobs' = performSearch(jobs.startIndex + PageSize, TRUE)
    /\ UNCHANGED <<appVars, http, alumni, retry>>

\* setHasMore: by the reported total when there is one, else by a full page
HasMore(body, requestedStart, unique) ==
    IF Has(body, "searchInformation")
    THEN (requestedStart - 1) + Len(unique) < ParseInt(body.searchInformation.totalResults)
    ELSE Len(unique) >= PageSize

\* performSearch after the await: try, catch and finally
SearchSettles_Jobs(outcome) ==
    /\ ~IsNull(jobs.pending)
    /\ outcome \in SearchOutcomes(jobs.pending.start)
    /\ LET call == jobs.pending
           done == [requestedStart |-> call.requestedStart, append |-> call.append,
                    cacheKey |-> call.cacheKey, start |-> call.start,
                    before |-> call.before]
       IN  IF outcome.state = "rejected" \/ Has(outcome.data, "error")
           THEN jobs' = [jobs EXCEPT
                            !.error = IF outcome.state = "rejected" THEN outcome.message
                                      ELSE outcome.data.error.message,
                            !.results = <<>>,
                            !.loading = FALSE,
                            !.pending = Null,
                            !.last = [from |-> "failed"] @@ done]
           ELSE LET items == IF Has(outcome.data, "items") THEN outcome.data.items ELSE <<>>
                    unique == Deduplicate(items, {})
                IN  jobs' = [jobs EXCEPT
                                !.cache = Put(@, call.cacheKey, unique),
                                !.results = IF call.append THEN Appended(@, unique)
                                            ELSE FirstPage(unique),
                                !.hasMore = HasMore(outcome.data, call.requestedStart, unique),
                                !.startIndex = call.requestedStart,
                                !.loading = FALSE,
                                !.pending = Null,
                                !.last = [from |-> "api"] @@ done]
    /\ UNCHANGED <<appVars, http, alumni, retry>>

SentStarts == {1 + n * PageSize : n \in 0..MaxPages}

InitJobs == Init /\ localStorage = NoItem

NextJobs ==
    \/ \E q \in JobQueries : SetQuery(q)
    \/ handleSubmit
    \/ handleLoadMore
    \/ \E start \in SentStarts : \E outcome \in SearchOutcomes(start) :
            SearchSettles_Jobs(outcome)

SpecJobs == InitJobs /\ [][NextJobs]_vars

\* ------------------------------------------------------------------ claims
LoadReturned == lastCall.op = "loadData" /\ lastCall.outcome = "returned"
LoadFinished == lastCall.op = "loadData"

\* entries of a departments list that carry the identifier id
DeptEntries(departments, id) ==
    {departments[n] : n \in {m \in DOMAIN departments : departments[m].id = id}}

SeedDeptIds == DeptIds(fallbackData.departments)

\* C1: every department, branch or professor identifier that is in the Seed
\* Dataset but not in the base loadData chose is, in the aggregate loadData
\* sets, present with exactly the seed's values.
C1_SeedOnlyEntriesAdded ==
    LoadReturned =>
        LET base == lastCall.loaded
        IN  /\ \A k \in DOMAIN fallbackData.professors \ DOMAIN base.professors :
                  k \in DOMAIN data.professors /\ data.professors[k] = fallbackData.professors[k]
            /\ \A k \in DOMAIN fallbackData.branches \ DOMAIN base.branches :
                  k \in DOMAIN data.branches /\ data.branches[k] = fallbackData.branches[k]
            /\ \A id \in SeedDeptIds \ DeptIds(base.departments) :
                  /\ DeptEntries(data.departments, id) # {}
                  /\ DeptEntries(data.departments, id) = DeptEntries(fallbackData.departments, id)

\* loadData returned on a cache snapshot that lacked a seed professor, the
\* seed branch and the seed department, and all three are now in the aggregate
C1_Witness ==
    /\ LoadReturned
    /\ lastCall.source = "cache"
    /\ "prof_ece_2" \notin DOMAIN lastCall.loaded.professors
    /\ "branch_ece" \notin DOMAIN lastCall.loaded.branches
    /\ "dept_ece" \notin DeptIds(lastCall.loaded.departments)
    /\ data.professors["prof_ece_2"] = fallbackData.professors["prof_ece_2"]
    /\ data.branches["branch_ece"] = fallbackData.branches["branch_ece"]
    /\ DeptEntries(data.departments, "dept_ece") # {}

\* C2: for every identifier that is both in the base (Remote Store payload or
\* Local Cache snapshot) and in the Seed Dataset, the aggregate loadData sets
\* holds the base's entry, never the seed's.
C2_BaseEntriesWin ==
    (LoadReturned /\ lastCall.source \in {"remote", "cache"}) =>
        LET base == lastCall.loaded
        IN  /\ \A k \in DOMAIN fallbackData.professors \cap DOMAIN base.professors :
                  data.professors[k] = base.professors[k]
            /\ \A k \in DOMAIN fallbackData.branches \cap DOMAIN base.branches :
                  data.branches[k] = base.branches[k]
            /\ \A id \in SeedDeptIds \cap DeptIds(base.departments) :
                  /\ DeptEntries(data.departments, id) = DeptEntries(base.departments, id)
                  /\ Cardinality({n \in DOMAIN data.departments : data.departments[n].id = id})
                        = Cardinality({n \in DOMAIN base.departments :
                                            base.departments[n].id = id})

\* loadData returned on a Remote Store payload whose professor, branch and
\* department entries differ from the seed's under the same identifiers
C2_Witness ==
    /\ LoadReturned
    /\ lastCall.source = "remote"
    /\ "prof_ece_1" \in DOMAIN lastCall.loaded.professors
    /\ lastCall.loaded.professors["prof_ece_1"] # fallbackData.professors["prof_ece_1"]
    /\ data.professors["prof_ece_1"] = lastCall.loaded.professors["prof_ece_1"]
    /\ data.branches["branch_ece"] # fallbackData.branches["branch_ece"]
    /\ DeptEntries(data.departments, "dept_ece") # DeptEntries(fallbackData.departments, "dept_ece")

\* C3: with the non-empty Seed Dataset, an aggregate that loadData has set
\* never has an empty professor map, whatever the Remote Store answered and
\* whatever the Local Cache held.
C3_LoadNeverEmptyProfessors ==
    LoadReturned => DOMAIN data.professors # {}

\* loadData returned on a Remote Store payload that held no professor at all
C3_Witness ==
    /\ LoadReturned
    /\ lastCall.source = "remote"
    /\ DOMAIN lastCall.loaded.professors = {}
    /\ DOMAIN data.professors # {}

NoLoadPending == \A i \in 1..MaxCalls : calls[i].op # "loadData"

\* C4: loadData never throws: whatever the Remote Store answered and whatever
\* the Local Cache holds, it returns, the aggregate is set and not null, and
\* the loading flag is cleared.
C4_LoadNeverThrows ==
    LoadFinished =>
        /\ lastCall.outcome = "returned"
        /\ ~IsNull(data)
        /\ NoLoadPending => loading = FALSE

\* C5: the base is the Remote Store payload when the fetch succeeded with a
\* payload that has a departments list, and connectivity is then "connected";
\* otherwise connectivity is "offline" and the base is the Local Cache
\* snapshot when one is stored and parses, the Seed Dataset when not.
C5_BasePriority ==
    LoadFinished =>
        LET call == lastCall.call
            remoteAdopted == /\ call.state = "fulfilled"
                             /\ ~IsNull(call.reply)
                             /\ "departments" \in DOMAIN call.reply
            snapshotReadable == localStorage.item = "json" /\ ~IsNull(localStorage.value)
        IN  IF remoteAdopted
            THEN lastCall.loaded = call.reply /\ apiStatus = "connected"
            ELSE /\ apiStatus = "offline"
                 /\ snapshotReadable => lastCall.loaded = localStorage.value
                 /\ ~snapshotReadable => lastCall.loaded = fallbackData

\* the Remote Store answered with a payload without departments while a
\* snapshot was stored: the snapshot became the base, connectivity is offline
C5_Witness ==
    /\ LoadReturned
    /\ lastCall.call.state = "fulfilled"
    /\ lastCall.call.reply = EmptyObject
    /\ localStorage = stringify(CacheSnapshot)
    /\ lastCall.loaded = CacheSnapshot
    /\ apiStatus = "offline"

EditApplied ==
    lastCall.op = "editProfessor" /\ lastCall.outcome \in {"saved", "savedLocally"}
EditSavedLocally ==
    lastCall.op = "editProfessor" /\ lastCall.outcome = "savedLocally"

\* the aggregate holds, under the key the edit wrote, a record with the
\* submitted values
HoldsEditedRecord(aggregate) ==
    /\ lastCall.key \in DOMAIN aggregate.professors
    /\ LET record == aggregate.professors[lastCall.key]
       IN  /\ record.id = lastCall.key
           /\ record.name = lastCall.call.form.name
           /\ record.departmentId = lastCall.call.form.departmentId
           /\ record.branch = lastCall.call.branchId

CacheHoldsEditedRecord ==
    /\ localStorage.item = "json"
    /\ ~IsNull(localStorage.value)
    /\ HoldsEditedRecord(localStorage.value)
    /\ localStorage.value.professors[lastCall.key] = data.professors[lastCall.key]

\* C6, as claimed: after an Edit of an identified professor whose Remote Store
\* call failed, the Local Cache holds the edited record, the aggregate holds
\* the same record, and connectivity is "offline".
C6_Original ==
    (EditSavedLocally /\ lastCall.call.form.id # "") =>
        /\ lastCall.key = lastCall.call.form.id
        /\ HoldsEditedRecord(data)
        /\ CacheHoldsEditedRecord
        /\ apiStatus = "offline"

\* C6, amended: after an Edit whose Remote Store call failed, the aggregate
\* holds the edited record and connectivity is "offline"; the Local Cache
\* holds the same record when a write of the cache succeeded.
C6_LocalFallback ==
    EditSavedLocally =>
        /\ lastCall.call.form.id # "" => lastCall.key = lastCall.call.form.id
        /\ HoldsEditedRecord(data)
        /\ apiStatus = "offline"
        /\ lastCall.stored => CacheHoldsEditedRecord

\* an Edit of prof_ece_1 fell back to the local write and the cache took it
C6_Witness ==
    /\ EditSavedLocally
    /\ lastCall.key = "prof_ece_1"
    /\ lastCall.stored
    /\ CacheHoldsEditedRecord
    /\ data.professors["prof_ece_1"].name = "Edited Name"
    /\ apiStatus = "offline"

AddFailed == lastCall.op = "addProfessor" /\ lastCall.outcome = "failed"

\* C7: when the Remote Store call of Add Professor fails, the aggregate and
\* the Local Cache are what they were before, and the failure notice is shown.
C7_AddFailureLeavesState ==
    AddFailed =>
        /\ data = lastCall.before
        /\ localStorage = lastCall.itemBefore
        /\ toast = "Failed to save professor."

\* an Add was rejected while an aggregate was loaded
C7_Witness ==
    /\ AddFailed
    /\ lastCall.call.state = "rejected"
    /\ ~IsNull(data)
    /\ DOMAIN data.professors # {}
    /\ toast = "Failed to save professor."

\* positions of the branches the handler saw listed in the target department
\* that satisfy Match
ListedMatches(Match(_)) ==
    LET listed == lastCall.call.listed
    IN  {n \in DOMAIN listed : ~IsNull(listed[n]) /\ Match(listed[n])}

NameMatches ==
    ListedMatches(LAMBDA b :
        toLowerCase(b.name) = toLowerCase(lastCall.call.form.branchName))

IdOrNameMatches ==
    ListedMatches(LAMBDA b :
        \/ b.id = lastCall.call.form.branchName
        \/ toLowerCase(b.name) = toLowerCase(lastCall.call.form.branchName))

TargetDeptId == lastCall.call.department.id

\* the department lists are those of before, with b appended once to the
\* branch list of every department that has the target identifier
AppendedOnceToTarget(b) ==
    /\ DOMAIN data.departments = DOMAIN lastCall.before.departments
    /\ \A n \in DOMAIN data.departments :
          LET d == lastCall.before.departments[n]
          IN  IF d.id = TargetDeptId
              THEN data.departments[n] = [d EXCEPT !.branches = Append(d.branches, b)]
              ELSE data.departments[n] = d

\* C8, as claimed: when the submitted branch name equals, ignoring case, the
\* name of a listed branch, the professor gets that branch's identifier and
\* no branch is created; otherwise exactly one new Branch is added and its
\* identifier is appended once to the target department's list.
C8_Original ==
    EditApplied =>
        LET before == lastCall.before
            stored == data.professors[lastCall.key]
        IN  IF NameMatches # {}
            THEN /\ stored.branch \in {lastCall.call.listed[n].id : n \in NameMatches}
                 /\ data.branches = before.branches
                 /\ data.departments = before.departments
            ELSE \E b \in DOMAIN data.branches \ DOMAIN before.branches :
                    /\ DOMAIN data.branches = DOMAIN before.branches \cup {b}
                    /\ \A k \in DOMAIN before.branches : data.branches[k] = before.branches[k]
                    /\ AppendedOnceToTarget(b)

\* C8, amended: when the submitted branch name equals the identifier, or
\* ignoring case the name, of a branch the handler saw listed in the target
\* department, the professor gets the first such branch's identifier and the
\* edit changes neither the branch map nor a branch list; otherwise the edit
\* writes one Branch under the synthesized identifier and appends that
\* identifier once to the branch list of the target department.
C8_BranchResolution ==
    EditApplied =>
        LET before == lastCall.before
            stored == data.professors[lastCall.key]
            form == lastCall.call.form
        IN  IF IdOrNameMatches # {}
            THEN /\ \E n \in IdOrNameMatches :
                      /\ \A m \in IdOrNameMatches : n <= m
                      /\ stored.branch = lastCall.call.listed[n].id
                 /\ data.branches = before.branches
                 /\ data.departments = before.departments
            ELSE LET b == stored.branch
                 IN  /\ b \in {TimeId("branch_", t) : t \in Times}
                     /\ DOMAIN data.branches = DOMAIN before.branches \cup {b}
                     /\ data.branches[b] =
                           [id |-> b, name |-> form.branchName, departmentId |-> TargetDeptId]
                     /\ \A k \in DOMAIN before.branches \ {b} :
                           data.branches[k] = before.branches[k]
                     /\ AppendedOnceToTarget(b)

\* an Edit that named the listed branch by its identifier reused it
C8_WitnessReuse ==
    /\ EditApplied
    /\ lastCall.call.form.branchName = "branch_ece"
    /\ NameMatches = {}
    /\ IdOrNameMatches # {}
    /\ data.professors[lastCall.key].branch = "branch_ece"
    /\ data.branches = lastCall.before.branches

\* the cache-path load, saved and loaded again
Reloaded ==
    LET item == saveLocalData(localStorage, data, TRUE)
    IN  MergeFallback(LoadedData([op |-> "loadData", state |-> "rejected"], item))

\* C9: on the cache path, saving the loaded aggregate and loading again
\* yields the same aggregate, and no department identifier is listed twice.
C9_MergeIdempotent ==
    (LoadReturned /\ lastCall.source = "cache") =>
        /\ Reloaded = data
        /\ \A n, m \in DOMAIN data.departments :
              data.departments[n].id = data.departments[m].id => n = m

\* loadData returned on a snapshot into which seed entries were merged
C9_Witness ==
    /\ LoadReturned
    /\ lastCall.source = "cache"
    /\ data # lastCall.loaded
    /\ Len(data.departments) > Len(lastCall.loaded.departments)
    /\ Reloaded = data

AddSaved == lastCall.op = "addProfessor" /\ lastCall.outcome = "saved"

\* C10: when Add Professor succeeds, the record the Remote Store returned is
\* in the professor map under the identifier the server assigned, its id is
\* that key, and every other professor entry is as before.
C10_AddInsertsUnderServerId ==
    (AddSaved /\ Has(lastCall.call.reply, "_id")) =>
        LET savedProf == lastCall.call.reply
            key == savedProf._id
            before == lastCall.before.professors
        IN  /\ key \in DOMAIN data.professors
            /\ data.professors[key].id = key
            /\ \A f \in DOMAIN savedProf \ {"id"} : data.professors[key][f] = savedProf[f]
            /\ DOMAIN data.professors = DOMAIN before \cup {key}
            /\ \A k \in DOMAIN before \ {key} : data.professors[k] = before[k]

\* an Add succeeded with a server-assigned identifier while other professors
\* were in the map
C10_Witness ==
    /\ AddSaved
    /\ Has(lastCall.call.reply, "_id")
    /\ lastCall.call.reply._id = "srv_1"
    /\ data.professors["srv_1"].name = "New Professor"
    /\ "prof_ece_1" \in DOMAIN lastCall.before.professors
    /\ "prof_ece_1" \in DOMAIN data.professors

\* C11: when Add Professor succeeds with a branch name that matched no branch
\* listed in the target department, a Branch with the synthesized identifier
\* is in the branch map and on the branch list of the target department, so
\* that the branch identifier of the new professor refers to a Branch.
C11_AddRegistersBranch ==
    (AddSaved /\ ~IsNull(data) /\ NameMatches = {}) =>
        LET branchId == lastCall.call.payload.branch
        IN  /\ branchId \in DOMAIN data.branches
            /\ \E d \in DeptEntries(data.departments, TargetDeptId) :
                  \E n \in DOMAIN d.branches : d.branches[n] = branchId

EditSaved == lastCall.op = "editProfessor" /\ lastCall.outcome = "saved"

\* C12: when Edit Professor succeeds, the entry under the edited identifier
\* is the record the Remote Store returned, the professor map has no entry
\* that it had not before under another key, every other entry is as before,
\* and a newly created branch is in the branch map.
C12_EditKeepsOneRecord ==
    (EditSaved /\ ~IsNull(data) /\ lastCall.call.form.id # "") =>
        LET id == lastCall.call.form.id
            savedProf == lastCall.call.reply
            before == lastCall.before.professors
        IN  /\ id \in DOMAIN data.professors
            /\ \A f \in DOMAIN savedProf \ {"id"} :
                  Has(data.professors[id], f) /\ data.professors[id][f] = savedProf[f]
            /\ DOMAIN data.professors = DOMAIN before \cup {id}
            /\ \A k \in DOMAIN before \ {id} : data.professors[k] = before[k]
            /\ lastCall.call.isNewBranch => lastCall.call.branchId \in DOMAIN data.branches

RemoveDone == lastCall.op = "removeProfessor" /\ lastCall.outcome = "removed"
RemoveFailed == lastCall.op = "removeProfessor" /\ lastCall.outcome = "failed"

\* C13: when the delete of Remove Professor succeeds, the professor map loses
\* exactly the entry under the given identifier and every other entry, and
\* the rest of the aggregate, is as before; when the delete fails, the
\* failure notice is shown and the aggregate and the Local Cache are as before.
C13_RemoveProfessorFrame ==
    /\ (RemoveDone /\ ~IsNull(lastCall.before)) =>
          LET before == lastCall.before
              profId == lastCall.call.profId
          IN  /\ DOMAIN data.professors = DOMAIN before.professors \ {profId}
              /\ \A k \in DOMAIN data.professors : data.professors[k] = before.professors[k]
              /\ data.departments = before.departments
              /\ data.branches = before.branches
    /\ RemoveFailed =>
          /\ toast = "Error removing professor."
          /\ data = lastCall.before
          /\ localStorage = lastCall.itemBefore

\* prof_ece_1 was removed from a map that keeps prof_ece_2
C13_Witness ==
    /\ RemoveDone
    /\ lastCall.call.profId = "prof_ece_1"
    /\ "prof_ece_1" \in DOMAIN lastCall.before.professors
    /\ "prof_ece_1" \notin DOMAIN data.professors
    /\ "prof_ece_2" \in DOMAIN data.professors
    /\ toast = "Professor removed."

DepartmentRemoved == lastCall.op = "removeDepartment" /\ lastCall.outcome = "removed"
DepartmentRemoveFailed == lastCall.op = "removeDepartment" /\ lastCall.outcome = "failed"

\* C14: when the delete and the refetch of Remove Department both succeed,
\* the aggregate is the refetched one; when the delete or the refetch fails,
\* the failure notice is shown and the aggregate is as before.
C14_RemoveDepartment ==
    /\ DepartmentRemoved =>
          /\ data = lastCall.call.reply
          /\ toast = "Department removed."
    /\ DepartmentRemoveFailed =>
          /\ toast = "Error removing department."
          /\ data = lastCall.before

\* a department was removed and the refetched aggregate, which lacks the Seed
\* Dataset's entries the aggregate had before, took its place
C14_Witness ==
    /\ DepartmentRemoved
    /\ lastCall.call.deptId = "dept_ece"
    /\ lastCall.call.reply = ServerEmpty
    /\ "prof_ece_1" \in DOMAIN lastCall.before.professors
    /\ data = ServerEmpty

InvalidDepartment ==
    /\ lastCall.op \in {"addProfessor", "editProfessor"}
    /\ lastCall.outcome = "invalidDepartment"

\* the step is a rejection of an Add or Edit for its department
RejectsDepartment == lastCall' # lastCall /\ lastCall'.outcome = "invalidDepartment"

\* calls of Add or Edit that the step put in flight
StartedUpdates ==
    {i \in 1..MaxCalls : /\ calls'[i] # calls[i]
                         /\ calls'[i].op \in {"addProfessor", "editProfessor"}}

\* C15: an Add or Edit whose department identifier is not in the aggregate's
\* department list is rejected with a message, starts no Remote Store call and
\* leaves aggregate, Local Cache and connectivity as they were; a Remote
\* Store call of Add or Edit starts only for a department of the aggregate,
\* and the record Add or Edit writes carries that department's identifier.
C15_UnknownDepartmentRejected ==
    /\ [](InvalidDepartment =>
            /\ lastCall.form.departmentId \notin DeptIds(lastCall.before.departments)
            /\ toast \in {"Error: Selected department not found.",
                          "Selected department not found."}
            /\ data = lastCall.before
            /\ localStorage = lastCall.itemBefore
            /\ apiStatus = lastCall.statusBefore)
    /\ [][RejectsDepartment => calls' = calls]_vars
    /\ [][\A i \in StartedUpdates :
             calls'[i].form.departmentId \in DeptIds(data.departments)]_vars
    /\ []((AddSaved \/ EditSaved \/ EditSavedLocally) /\ ~IsNull(data) =>
            data.professors[lastCall.key].departmentId = lastCall.call.form.departmentId)

\* an Add for a department that is not in the loaded aggregate was rejected
\* with the message while no call was in flight
C15_Witness ==
    /\ InvalidDepartment
    /\ lastCall.op = "addProfessor"
    /\ lastCall.form.departmentId = "dept_gone"
    /\ ~IsNull(data)
    /\ "dept_gone" \notin DeptIds(data.departments)
    /\ toast = "Error: Selected department not found."
    /\ \A i \in 1..MaxCalls : calls[i] = Idle

\* the handler that finished last changed the aggregate, and every write of
\* the Local Cache it attempted succeeded
ChangedAggregate ==
    /\ Has(lastCall, "before")
    /\ lastCall.outcome \in {"returned", "saved", "savedLocally", "removed"}
    /\ data # lastCall.before
    /\ Has(lastCall, "stored") => lastCall.stored

\* C16: after load-time reconciliation, Add, Edit, Remove Professor or Remove
\* Department changed the aggregate, with the storage writes succeeding, the
\* Local Cache holds exactly the aggregate.
C16_CacheMirrorsAggregate ==
    ChangedAggregate => localStorage = stringify(data)

\* C17: the aggregate is absent in the state a logout leaves, and from then
\* on it stays absent until a load completes.
C17_LogoutDropsAggregate ==
    /\ [][(userRole # "none" /\ userRole' = "none") => IsNull(data')]_vars
    /\ [][(IsNull(data) /\ ~IsNull(data')) =>
             (lastCall'.op = "loadData" /\ lastCall'.outcome = "returned")]_vars

\* the step that ran last resumed a handler after a Remote Store call
RemoteCompleted == Has(lastCall, "call")

\* that call succeeded (for loadData: with a payload loadData adopts)
RemoteSucceeded ==
    /\ lastCall.call.state = "fulfilled"
    /\ lastCall.op = "loadData" => ServerDataValid(lastCall.call.reply)

\* C18: connectivity is "connected" when the Remote Store call that completed
\* last succeeded and "offline" when it failed, and it is "connecting" only
\* while no Remote Store call has completed.
C18_StatusReflectsLastCall ==
    /\ RemoteCompleted =>
          apiStatus = IF RemoteSucceeded THEN "connected" ELSE "offline"
    /\ apiStatus = "connecting" => ~RemoteCompleted

\* the handler that finished last updated a loaded aggregate and every write
\* of the Local Cache it attempted threw
WriteFailed ==
    /\ Has(lastCall, "stored")
    /\ ~lastCall.stored
    /\ ~IsNull(lastCall.before)

\* the notice the handler shows on the path it took
PathNotice ==
    CASE lastCall.outcome = "saved" /\ lastCall.op = "addProfessor" -> "Professor added!"
      [] lastCall.outcome = "saved" /\ lastCall.op = "editProfessor" -> "Professor updated."
      [] lastCall.outcome = "savedLocally" -> "Professor updated locally (offline)."
      [] lastCall.outcome = "removed" -> "Professor removed."

\* C19: when the write of the Local Cache fails during a mutation, the
\* handler finishes on its normal path with its normal notice, the aggregate
\* has the mutation, and the Local Cache holds what it held before.
C19_CacheWriteFailureIgnored ==
    WriteFailed =>
        /\ lastCall.outcome \in {"saved", "savedLocally", "removed"}
        /\ toast = PathNotice
        /\ localStorage = lastCall.itemBefore
        /\ IF lastCall.op = "removeProfessor"
           THEN lastCall.call.profId \notin DOMAIN data.professors
           ELSE /\ lastCall.key \in DOMAIN data.professors
                /\ data.professors[lastCall.key].name = lastCall.call.form.name

\* an Add succeeded while the write of the cache threw: the snapshot of the
\* earlier session is still stored and the aggregate has the new professor
C19_Witness ==
    /\ AddSaved
    /\ WriteFailed
    /\ localStorage = stringify(CacheSnapshot)
    /\ "srv_1" \in DOMAIN data.professors
    /\ "srv_1" \notin DOMAIN lastCall.before.professors
    /\ toast = "Professor added!"

Requested == http # HttpIdle
RequestEnded == Requested /\ http.pc \in {"returned", "threw"}

\* the fetch outcome the attempt that ran last saw
LastOutcome == http.log[Len(http.log)]

\* outcomes of the attempts after which another fetch was or will be made
RetriedOutcomes ==
    {http.log[n] : n \in {m \in 1..Len(http.log) :
                            m < Len(http.log) \/ http.pc \in {"sleeping", "fetching"}}}

\* what request has done so far is within the claim
RequestWithinLimits ==
    Requested =>
        /\ http.fetches <= 3
        /\ http.fetches = Len(http.log) + (IF http.pc = "fetching" THEN 1 ELSE 0)
        /\ \A o \in RetriedOutcomes : o.kind = "error" /\ o.type = "TypeError"
        /\ Len(http.delays) = http.fetches - 1
        /\ \A n \in 1..Len(http.delays) : http.delays[n] = 500 * n
        /\ http.pc = "sleeping" => http.wait = 500 * http.fetches
        /\ (http.pc = "threw" /\ LastOutcome.kind = "response") =>
              IF Ok(LastOutcome.status)
              THEN ~Has(LastOutcome.body, "json")
              ELSE /\ http.error.status = LastOutcome.status
                   /\ (Has(LastOutcome.body, "json") /\ Has(LastOutcome.body.json, "error")) =>
                         http.error.message = LastOutcome.body.json.error
                   /\ (~Has(LastOutcome.body, "json") /\ LastOutcome.body.text # "") =>
                         http.error.message = LastOutcome.body.text
        /\ http.pc = "returned" =>
              /\ LastOutcome.kind = "response"
              /\ Ok(LastOutcome.status)
              /\ Has(LastOutcome.body, "json")
              /\ http.data = LastOutcome.body.json

\* C20: request makes at most three fetch attempts, makes another one only
\* after a network failure of fetch and never after a response, whatever its
\* status, waits 500 ms times the number of attempts made before the next
\* one, rejects a non-2xx response with an error carrying its status and the
\* server's message, and ends by returning the parsed body or throwing.
C20_RequestRetriesAndEnds ==
    /\ []RequestWithinLimits
    /\ Requested ~> RequestEnded

\* the third attempt returned the parsed body after two network failures and
\* waits of 500 ms and 1000 ms
C20_Witness ==
    /\ Requested
    /\ http.pc = "returned"
    /\ http.fetches = 3
    /\ http.delays = <<500, 1000>>
    /\ http.data = [ok |-> TRUE]

\* the record the Edit that ran last wrote: the document the Remote Store
\* returned, or on the fallback path the submitted values
EditWritten ==
    IF lastCall.outcome = "saved"
    THEN [id |-> lastCall.key] @@ lastCall.call.reply
    ELSE [name |-> lastCall.call.form.name, id |-> lastCall.key,
          branch |-> lastCall.call.branchId,
          departmentId |-> lastCall.call.department.id,
          departmentName |-> lastCall.call.department.name]

\* identifiers of the branches the handler saw listed when it was submitted
ListedAtSubmit ==
    {lastCall.call.listed[n].id :
        n \in {m \in DOMAIN lastCall.call.listed : ~IsNull(lastCall.call.listed[m])}}

CompletesMutation ==
    /\ lastCall' # lastCall
    /\ lastCall'.op \in {"addProfessor", "editProfessor", "removeProfessor",
                         "removeDepartment"}
    /\ lastCall'.outcome \in {"saved", "savedLocally", "removed"}
    /\ ~IsNull(data)
    /\ Has(lastCall', "stored") => lastCall'.stored

\* the aggregate after the step has the result of the mutation
ResultApplied ==
    CASE lastCall'.op = "removeProfessor" ->
            lastCall'.call.profId \notin DOMAIN data'.professors
      [] lastCall'.op = "removeDepartment" -> data' = lastCall'.call.reply
      [] OTHER -> lastCall'.key \in DOMAIN data'.professors

\* C22: a mutation whose response arrives after the user logged out still
\* applies its result to the aggregate and writes it to the Local Cache.
C22_NoCancellation ==
    [][(userRole = "none" /\ CompletesMutation) =>
          (ResultApplied /\ localStorage' = stringify(data'))]_vars

\* Add Professor returned without adding a record
AddNothing ==
    /\ lastCall.op = "addProfessor"
    /\ lastCall.outcome \in {"failed", "invalidDepartment"}

\* C23: when Add Professor added no record, because the Remote Store call
\* failed or the department was not found, the dialog does not show
\* 'Professor added.' and is not closed.
C23_DialogReportsNoSuccess ==
    AddNothing =>
        /\ lastCall.dialog.notice # "Professor added."
        /\ ~lastCall.dialog.closed

\* the step is a loadData that returns after the professor removed last was
\* dropped from aggregate and Local Cache, and the Remote Store does not
\* return that professor: its call failed, or its payload has no entry under
\* that identifier
LoadsWithoutRemoved ==
    /\ RemoveDone
    /\ ~IsNull(lastCall.before)
    /\ lastCall.stored
    /\ lastCall'.op = "loadData"
    /\ lastCall'.outcome = "returned"
    /\ \/ lastCall'.call.state = "rejected"
       \/ lastCall.call.profId \notin DOMAIN lastCall'.call.reply.professors

\* C24: after a successful Remove Professor of p, a loadData for which the
\* Remote Store does not return p yields an aggregate without p, for every p,
\* the identifiers of the Seed Dataset included.
C24_RemoveDurable ==
    [][LoadsWithoutRemoved => lastCall.call.profId \notin DOMAIN data'.professors]_vars

\* the step is a loadData that returns while the record the last Edit wrote
\* locally is in the aggregate and was written to the Local Cache
LoadsAfterLocalEdit ==
    /\ EditSavedLocally
    /\ lastCall.stored
    /\ ~IsNull(data)
    /\ HoldsEditedRecord(data)
    /\ lastCall'.op = "loadData"
    /\ lastCall'.outcome = "returned"

\* C25: a loadData after an Edit that fell back to the local write, with the
\* Remote Store reachable or not, yields an aggregate that still contains the
\* locally written record.
C25_LocalEditSurvivesLoad ==
    [][LoadsAfterLocalEdit =>
          /\ lastCall.key \in DOMAIN data'.professors
          /\ data'.professors[lastCall.key] = data.professors[lastCall.key]]_vars

\* Add, Edit or Remove Professor succeeded at the Remote Store and its updater
\* ran on a loaded aggregate
ProfessorMutated ==
    /\ lastCall.op \in {"addProfessor", "editProfessor", "removeProfessor"}
    /\ lastCall.outcome \in {"saved", "removed"}
    /\ ~IsNull(lastCall.before)

\* the professor identifier the operation wrote or dropped
MutatedKey ==
    IF lastCall.op = "removeProfessor" THEN lastCall.call.profId ELSE lastCall.key

\* every other professor is as it was when the response was applied, changes
\* of operations that completed while this one was in flight included
OtherProfessorsKept ==
    \A k \in (DOMAIN lastCall.before.professors \cup DOMAIN data.professors) \ {MutatedKey} :
        /\ k \in DOMAIN lastCall.before.professors
        /\ k \in DOMAIN data.professors
        /\ data.professors[k] = lastCall.before.professors[k]

\* branches and branch lists that were there when the response was applied
\* are still there, in the same order
DirectoryKept ==
    /\ \A b \in DOMAIN lastCall.before.branches : b \in DOMAIN data.branches
    /\ DOMAIN data.departments = DOMAIN lastCall.before.departments
    /\ \A n \in DOMAIN data.departments :
          LET was == lastCall.before.departments[n].branches
              now == data.departments[n].branches
          IN  /\ data.departments[n].id = lastCall.before.departments[n].id
              /\ Len(was) <= Len(now)
              /\ SubSeq(now, 1, Len(was)) = was

\* the operation's own change is in the aggregate
OwnChangeHeld ==
    IF lastCall.op = "removeProfessor"
    THEN MutatedKey \notin DOMAIN data.professors
    ELSE /\ MutatedKey \in DOMAIN data.professors
         /\ \A f \in DOMAIN lastCall.call.reply \ {"id"} :
               data.professors[MutatedKey][f] = lastCall.call.reply[f]

C27_BranchListsDistinct ==
    ~IsNull(data) =>
        \A n \in DOMAIN data.departments :
            LET listed == data.departments[n].branches
            IN  \A i \in DOMAIN listed, j \in DOMAIN listed :
                    i # j =>
                        /\ listed[i] # listed[j]
                        /\ (Has(data.branches, listed[i]) /\ Has(data.branches, listed[j])) =>
                              toLowerCase(data.branches[listed[i]].name)
                                  # toLowerCase(data.branches[listed[j]].name)

\* C28: once every search request has completed, the status and the results
\* on the page are those of the search that was issued last.
C28_LatestSearchShown ==
    (alumni.issued > 0 /\ alumni.fetches = {}) => alumni.shown = alumni.issued

\* an HTTP error response whose status is neither 429 nor 500 or more
ClientError(outcome) ==
    /\ outcome.kind = "response"
    /\ ~Ok(outcome.status)
    /\ outcome.status # 429
    /\ outcome.status < 500

\* C29: a response with a non-2xx status other than 429 and below 500 ends
\* fetchWithRetry by a rejection, with no fetch issued after it, whatever the
\* number of retries left.
C29_ClientErrorNotRetried ==
    Has(retry, "log") =>
        \A n \in 1..Len(retry.log) :
            ClientError(retry.log[n]) =>
                /\ n = Len(retry.log)
                /\ retry.pc = "threw"
                /\ retry.fetches = n

\* a Load More is awaiting the search API, or was the last search to end
\* with a response of the API
LoadMoreSent ==
    \/ ~IsNull(jobs.pending) /\ jobs.pending.append
    \/ jobs.last.from = "api" /\ jobs.last.append

\* the request of that Load More
LoadMoreCall == IF ~IsNull(jobs.pending) THEN jobs.pending ELSE jobs.last

\* C30: a Load More requests the start index that follows the last loaded
\* page (start index + pageSize); the start parameter it sends to the search
\* API is that index, the response is cached under that index, and it is the
\* start index once the response is in.
C30_LoadMoreRequestsNextPage ==
    LoadMoreSent =>
        /\ LoadMoreCall.requestedStart = LoadMoreCall.before + PageSize
        /\ LoadMoreCall.start = LoadMoreCall.requestedStart
        /\ \E q \in JobQueries :
              LoadMoreCall.cacheKey = CacheKey(q, LoadMoreCall.requestedStart)
        /\ IsNull(jobs.pending) =>
              /\ jobs.startIndex = LoadMoreCall.requestedStart
              /\ Has(jobs.cache, LoadMoreCall.cacheKey)
====
